---- MODULE Spec2Model ----
(***************************************************************************)
(* The resumable batch jobs of aipa_plate_cloud_functions:                 *)
(*   - the meal-description job (updateExistingMeals.ts) with its lock     *)
(*     document system/meal_update_lock and its progress document          *)
(*     system/meal_update_progress, driven by the drain                    *)
(*     updateAllExistingMeals, the trigger scheduledMealsUpdate and the    *)
(*     HTTP handler toggleScheduledUpdates (index.ts);                     *)
(*   - the image job generateImagesBatch with its scan-state document      *)
(*     internal/recraft_image_generation_state.                            *)
(* Every awaited store operation is one step; a store operation may fail,  *)
(* which the code sees as a rejected promise.                              *)
(*                                                                         *)
(* Meal documents are numbered 1..MaxMeals in the order of the job's       *)
(* ordering key: (created_time, document id) for the description job,      *)
(* the document id for the image job.  0 stands for "no key"               *)
(* (undefined / null).                                                     *)
(***************************************************************************)
EXTENDS Integers, Sequences, FiniteSets, TLC

\* ---- bounds of the model -------------------------------------------------
MaxMeals == 3        \* meal documents that can ever exist
MaxTime == 3         \* clock ticks explored (one tick = 15 minutes)
MaxInvoked == 2      \* cap of the per-drain invocation counter of one meal
MaxImgMeals == 4     \* meal documents that can ever exist, for the image job
MaxTags == 2         \* documents of the collection tags

\* ---- program constants, scaled -------------------------------------------
\* 30 * 60 * 1000 ms, in ticks of 15 minutes
LockTtl == 2
\* updateMealsInBatches BATCH_SIZE (5 in the source), scaled to the collection
BATCH_SIZE == 2
\* generateImagesBatch SCAN_PAGE_SIZE (200 in the source) and BATCH_SIZE (10),
\* scaled alike: the page is wider than the batch, the batch has two records
SCAN_PAGE_SIZE == 3
IMG_BATCH_SIZE == 2
\* updateSingleMeal maxRetries
maxRetries == 3
\* generateMealsForOneTag: the attempts of each of its two retry loops
TAG_ATTEMPTS == 3
\* generateMealsForTag: the number of meals a generation must return
MEALS_PER_TAG == 3

MealIds == 1..MaxMeals
ImgMealIds == 1..MaxImgMeals
Times == 0..MaxTime
\* instances of the scheduled trigger: one beside the drain, two overlapping
AllScheds == {1, 2}
TagIds == 1..MaxTags
\* the meal documents the tag job can create
TagMealIds == 1..(MaxTags * MEALS_PER_TAG)

VARIABLES
    now,        \* the clock (Date.now / Timestamp.now), in ticks
    lock,       \* document system/meal_update_lock
    progress,   \* document system/meal_update_progress
    meals,      \* collection generated_meals
    drain,      \* the invocation of updateAllExistingMeals
    sched,      \* the invocations of scheduledMealsUpdate, one per instance
    toggle,     \* the invocation of toggleScheduledUpdates: its action
    scanState,  \* document internal/recraft_image_generation_state
    img,        \* the invocation of generateImagesBatch
    cursorOp,   \* history: the operation that last wrote scanState
    secrets,    \* process.env: which of the secrets are configured
    tags,       \* collection tags
    tagJob,     \* the invocation of generateMealsForOneTag
    xf          \* one run of an item transformer, attempt by attempt

imgVars == <<scanState, img, cursorOp>>

vars == <<now, lock, progress, meals, drain, sched, toggle, scanState, img, cursorOp,
          secrets, tags, tagJob, xf>>

tagVars == <<tags, tagJob>>

\* ---- documents -----------------------------------------------------------
\* index.ts lines 22-23: the secrets, both configured
AllSecrets == [OPENAI_API_KEY |-> TRUE, RECRAFT_API_TOKEN |-> TRUE]

\* hasTs: the document has a timestamp field that toDate() can read
NoLock == [exists |-> FALSE, locked |-> FALSE, hasTs |-> FALSE, timestamp |-> 0,
           process_id |-> 0]

\* acquireLock's document: {locked: true, timestamp: now, process_id: update_<now>}
NewLock(t) == [exists |-> TRUE, locked |-> TRUE, hasTs |-> TRUE, timestamp |-> t,
               process_id |-> t]

\* lastUpdate, which no batch reads, is left out
NoProgress == [exists |-> FALSE, lastProcessedId |-> 0, totalProcessed |-> 0,
               totalUpdated |-> 0]

\* ---- Lock Manager --------------------------------------------------------
\* isUpdateProcessRunning, line 429: the lock has a timestamp and is older
\* than 30 minutes
IsStale(l, t) == l.exists /\ l.hasTs /\ (t - l.timestamp) > LockTtl

\* an active lock in the words of the specification: it exists and is not stale
IsActive(l, t) == l.exists /\ ~IsStale(l, t)

\* what isUpdateProcessRunning does after its get(): "release" (force-release
\* the stale lock, then answer false), "true" or "false".  readOk = FALSE is
\* the rejected get(), which the catch block turns into the answer false.
RunningAnswer(readOk, l, t) ==
    IF ~readOk THEN "false"
    ELSE IF ~l.exists THEN "false"
    ELSE IF IsStale(l, t) THEN "release"
    ELSE IF l.locked THEN "true" ELSE "false"

\* releaseLock: delete(), a rejected delete is logged and swallowed
ReleasedLock(l, deleteOk) == IF deleteOk THEN NoLock ELSE l

\* acquireLock: unconditional set(); a rejected set is logged, answer false
AcquiredLock(l, t, setOk) == IF setOk THEN NewLock(t) ELSE l

AcquireAnswer(l, t, setOk) == setOk

\* ---- Collection Scanner of the description job ----------------------------
Min(a, b) == IF a < b THEN a ELSE b

Present(ms) == {i \in DOMAIN ms : ms[i].st = "present"}

RECURSIVE SortedSeq(_)
SortedSeq(S) ==
    IF S = {} THEN <<>>
    ELSE LET m == CHOOSE x \in S : \A y \in S : x <= y
         IN  <<m>> \o SortedSeq(S \ {m})

Take(s, n) == SubSeq(s, 1, Min(n, Len(s)))

\* a start position that is applied whether or not its document exists
StartKeyAlways(ms, startAfter) == startAfter

\* updateMealsInBatches, lines 287-292: the start position is applied only if
\* the document named by startAfter still exists
StartKey(ms, startAfter) ==
    IF startAfter # 0 /\ ms[startAfter].st = "present" THEN startAfter ELSE 0

\* lines 281-294: orderBy(created_time).limit(BATCH_SIZE).startAfter(startDoc)
QueryPage(ms, startAfter) ==
    Take(SortedSeq({i \in Present(ms) : i > StartKey(ms, startAfter)}), BATCH_SIZE)

\* the documents of a page that already carry the enriched fields
Enriched(ms, page) == {page[k] : k \in {j \in 1..Len(page) : ms[page[j]].enriched}}

\* line 320
HasMore(processedCount) == processedCount = BATCH_SIZE

LastOf(page) == IF Len(page) = 0 THEN 0 ELSE page[Len(page)]

\* ---- Item Transformer of the description job ------------------------------
\* updateSingleMeal on the snapshot of one document, lines 217-266:
\*   "skip": the snapshot already has description_localized, benefits and
\*           ingredients, answer true without a call;
\*   "ok":   an attempt generated the description and update() was applied
\*           (update() rejects for a document that no longer exists);
\*   "fail": all maxRetries attempts failed, answer false.
\* key: OPENAI_API_KEY is set; without it getOpenAI throws in every attempt
\* (openai.ts lines 36-44), inside the try of line 224.
ItemResults(ms, id, snap, key) ==
    IF id \in snap THEN {"skip"}
    ELSE {"fail"} \cup (IF key /\ ms[id].st = "present" THEN {"ok"} ELSE {})

MealsAfter(ms, id, res) == IF res = "ok" THEN [ms EXCEPT ![id].enriched = TRUE] ELSE ms

Success(res) == res \in {"skip", "ok"}

\* the generation call is made for every result but "skip"
Transformed(res) == res # "skip"

\* ---- initial state --------------------------------------------------------
\* a meal document: st (absent, present, deleted); enriched: it has
\* description_localized, benefits and ingredients; hasTitle: title_localized.en
\* or title is set; source: image_generation_source; failed:
\* image_generation_failed, and with it image_generation_error and
\* image_generation_failed_at, which are written and removed together with it
AbsentDoc == [st |-> "absent", enriched |-> FALSE, hasTitle |-> FALSE,
              source |-> "other", failed |-> FALSE]

DeletedDoc == [AbsentDoc EXCEPT !.st = "deleted"]

\* the documents as the description job sees them, and as the image job does
DescDocs == [st : {"present"}, enriched : BOOLEAN, hasTitle : {TRUE},
             source : {"other"}, failed : {FALSE}]

\* (a document that has no title has no recraft-v3 image: the job generates
\* one only for a document with a title)
ImgDocs == {d \in [st : {"present"}, enriched : {FALSE}, hasTitle : BOOLEAN,
                   source : {"other", "recraft-v3"}, failed : {FALSE}] :
               d.source = "recraft-v3" => d.hasTitle}

\* rel: what the finally block did ("none", "ok", "failed"); invoked: how often
\* updateSingleMeal was called for each meal in this drain (history)
\* the scan state: lastDocId (0 is null), finished, started_at (-1: not set)
NoScanState == [exists |-> FALSE, lastDocId |-> 0, finished |-> FALSE, started_at |-> -1]

\* page, todo: the scanned page and the candidates taken from it; processed,
\* generated, failed: the counters; result: what the last call returned;
\* attempted, failedIds: the records the loop of lines 305-362 has run for, and
\* those whose run ended in the catch of line 356 (history)
NoResult == [given |-> FALSE, threw |-> FALSE, processed |-> 0, generated |-> 0,
             failed |-> 0, hasMore |-> FALSE]

IdleImg ==
    [pc |-> "idle", lastDocId |-> 0, page |-> <<>>, todo |-> <<>>, idx |-> 0,
     generated |-> 0, failed |-> 0, attempted |-> {}, failedIds |-> {},
     result |-> NoResult]

IdleDrain ==
    [pc |-> "idle", readFailed |-> FALSE, startAfter |-> 0, page |-> <<>>, snap |-> {},
     idx |-> 0, acquired |-> FALSE, threw |-> FALSE, outcome |-> "none",
     rel |-> "none", invoked |-> [i \in MealIds |-> 0]]

\* tp, tu: totalProcessed and totalUpdated of the progress document as read;
\* touched: the meals this invocation called the generator for (history)
IdleSched ==
    [pc |-> "idle", readFailed |-> FALSE, startAfter |-> 0, tp |-> 0, tu |-> 0,
     page |-> <<>>, snap |-> {}, idx |-> 0, updatedCount |-> 0, touched |-> {}]

\* a tag document: isGenerated; no tag is waiting where the tag job is not run
NoTags == [t \in TagIds |-> [isGenerated |-> TRUE]]

\* tag: the tag found; attempt: the attempt counter of the running retry loop;
\* k: the index of the meal being saved; savedCount: line 808
IdleTagJob == [pc |-> "idle", tag |-> 0, attempt |-> 0, k |-> 0, savedCount |-> 0]

\* job: "description" (updateSingleMeal) or "image" (the body of the loop of
\* generateImagesBatch); id: the record; enriched: the snapshot passed to
\* updateSingleMeal has the enriched fields; attempts: the calls of the generator
\* made; delays: the waits between them, in seconds; outcome: "none",
\* "skipped", "done" or "failed"
IdleXf == [pc |-> "idle", job |-> "none", id |-> 0, enriched |-> FALSE, attempts |-> 0,
           delays |-> <<>>, outcome |-> "none"]

\* the collections of 0..MaxMeals documents; the ids are ranks in the order
\* of the scan, so the first documents stand for any collection of that size
InitialMeals ==
    {ms \in [MealIds -> DescDocs \cup {AbsentDoc}] :
        \A i, j \in MealIds : (j < i /\ ms[i].st = "present") => ms[j].st = "present"}

Init ==
    /\ now = 0
    /\ lock = NoLock
    /\ progress = NoProgress
    /\ meals \in InitialMeals
    /\ drain = IdleDrain
    /\ sched = [p \in AllScheds |-> IdleSched]
    /\ toggle = "idle"
    /\ scanState = NoScanState
    /\ img = IdleImg
    /\ cursorOp = "none"
    /\ secrets = AllSecrets
    /\ tags = NoTags
    /\ tagJob = IdleTagJob
    /\ xf = IdleXf

\* ---- environment ----------------------------------------------------------
Tick ==
    /\ now < MaxTime
    /\ now' = now + 1
    /\ UNCHANGED <<tagVars, xf, secrets, lock, progress, meals, drain, sched, toggle, imgVars>>

\* another writer creates a meal document (saveMealToFirestore and others)
InsertMeal ==
    /\ \E i \in MealIds, d \in DescDocs :
        /\ meals[i].st = "absent"
        /\ meals' = [meals EXCEPT ![i] = d]
    /\ UNCHANGED <<tagVars, xf, secrets, now, lock, progress, drain, sched, toggle, imgVars>>

\* another writer deletes a meal document; a deleted id is never used again
DeleteMeal ==
    /\ \E i \in DOMAIN meals :
        /\ meals[i].st = "present"
        /\ meals' = [meals EXCEPT ![i] = DeletedDoc]
    /\ UNCHANGED <<tagVars, xf, secrets, now, lock, progress, drain, sched, toggle, imgVars>>

\* ---- updateAllExistingMeals (drain), lines 478-540 ------------------------
\* the local totals totalProcessed and totalUpdated are only logged
DrainStart ==
    /\ drain.pc = "idle"
    /\ drain' = [IdleDrain EXCEPT !.pc = "check"]
    /\ UNCHANGED <<tagVars, xf, secrets, now, lock, progress, meals, sched, toggle, imgVars>>

\* line 482: isUpdateProcessRunning, its get(); the answer true is thrown as
\* "Update process already running" (line 485)
DrainCheck ==
    /\ drain.pc = "check"
    /\ \E readOk \in BOOLEAN :
        LET a == RunningAnswer(readOk, lock, now)
        IN  drain' = IF a = "release" THEN [drain EXCEPT !.pc = "force_release"]
                     ELSE IF a = "true"
                          THEN [drain EXCEPT !.pc = "idle", !.threw = TRUE,
                                             !.outcome = "already_running"]
                          ELSE [drain EXCEPT !.pc = "acquire", !.readFailed = ~readOk]
    /\ UNCHANGED <<tagVars, xf, secrets, now, lock, progress, meals, sched, toggle, imgVars>>

\* lines 429-433: the stale lock is force-released, the answer is false
DrainForceRelease ==
    /\ drain.pc = "force_release"
    /\ \E deleteOk \in BOOLEAN : lock' = ReleasedLock(lock, deleteOk)
    /\ drain' = [drain EXCEPT !.pc = "acquire"]
    /\ UNCHANGED <<tagVars, xf, secrets, now, progress, meals, sched, toggle, imgVars>>

\* lines 489-492
DrainAcquire ==
    /\ drain.pc = "acquire"
    /\ \E setOk \in BOOLEAN :
        /\ lock' = AcquiredLock(lock, now, setOk)
        /\ drain' = IF AcquireAnswer(lock, now, setOk)
                     THEN [drain EXCEPT !.pc = "scan", !.readFailed = FALSE,
                                        !.acquired = TRUE]
                     ELSE [drain EXCEPT !.pc = "idle", !.readFailed = FALSE,
                                        !.threw = TRUE, !.outcome = "acquire_failed"]
    /\ UNCHANGED <<tagVars, xf, secrets, now, progress, meals, sched, toggle, imgVars>>

\* a drain whose exception leaves without the finally block
AfterLoopNoFinally(threw) == IF threw THEN "idle" ELSE "release"

\* where the drain goes when its loop ends, normally or by an exception:
\* the finally block of lines 536-539
AfterLoop(threw) == "release"

\* line 505: updateMealsInBatches(startAfter), its reads (lines 281-299); the
\* get() of the start document and the query are one step
DrainScan ==
    /\ drain.pc = "scan"
    /\ \E readOk \in BOOLEAN :
        IF ~readOk
        THEN drain' = [drain EXCEPT !.pc = AfterLoop(TRUE), !.threw = TRUE]
        ELSE LET page == QueryPage(meals, drain.startAfter)
             IN  drain' = IF Len(page) = 0
                          THEN [drain EXCEPT !.pc = AfterLoop(FALSE), !.startAfter = 0]
                          ELSE [drain EXCEPT !.pc = "item", !.page = page,
                                             !.snap = Enriched(meals, page), !.idx = 1]
    /\ UNCHANGED <<tagVars, xf, secrets, now, lock, progress, meals, sched, toggle, imgVars>>

\* lines 305-318 for one document, and lines 320-329, 507-527 after the last
DrainItem ==
    /\ drain.pc = "item"
    /\ LET id == drain.page[drain.idx]
           last == drain.idx = Len(drain.page)
       IN  /\ drain.invoked[id] < MaxInvoked
           /\ \E res \in ItemResults(meals, id, drain.snap, secrets.OPENAI_API_KEY) :
               /\ meals' = MealsAfter(meals, id, res)
               /\ drain' =
                    [drain EXCEPT
                       !.invoked[id] = @ + 1,
                       !.idx = IF last THEN 0 ELSE @ + 1,
                       !.startAfter = IF last THEN LastOf(drain.page) ELSE @,
                       !.page = IF last THEN <<>> ELSE @,
                       !.snap = IF last THEN {} ELSE @,
                       !.pc = IF ~last THEN "item"
                              ELSE IF HasMore(Len(drain.page)) THEN "scan"
                              ELSE AfterLoop(FALSE)]
    /\ UNCHANGED <<tagVars, xf, secrets, now, lock, progress, sched, toggle, imgVars>>

\* lines 536-539: finally releaseLock(), then the call returns or rethrows
DrainRelease ==
    /\ drain.pc = "release"
    /\ \E deleteOk \in BOOLEAN :
        /\ lock' = ReleasedLock(lock, deleteOk)
        /\ drain' = [drain EXCEPT !.pc = "idle", !.startAfter = 0,
                                  !.rel = IF deleteOk THEN "ok" ELSE "failed",
                                  !.invoked = [i \in MealIds |-> 0],
                                  !.outcome = IF drain.threw THEN "threw" ELSE "returned"]
    /\ UNCHANGED <<tagVars, xf, secrets, now, progress, meals, sched, toggle, imgVars>>

\* the drain holds the lock it acquired: from acquireLock to the finally block
DrainHolds == drain.pc \in {"scan", "item", "release"}

DrainNext ==
    \/ DrainStart
    \/ DrainCheck
    \/ DrainForceRelease
    \/ DrainAcquire
    \/ DrainScan
    \/ DrainItem
    \/ DrainRelease

\* ---- scheduledMealsUpdate, index.ts lines 316-341 -------------------------
SchedFire(p) ==
    /\ sched[p].pc = "idle"
    /\ sched' = [sched EXCEPT ![p] = [IdleSched EXCEPT !.pc = "check"]]
    /\ UNCHANGED <<tagVars, xf, secrets, now, lock, progress, meals, drain, toggle, imgVars>>

\* index.ts line 323: isUpdateProcessRunning, its get(); the answer true ends
\* the invocation at line 325
SchedCheck(p) ==
    /\ sched[p].pc = "check"
    /\ \E readOk \in BOOLEAN :
        LET a == RunningAnswer(readOk, lock, now)
        IN  sched' = [sched EXCEPT ![p] =
                IF a = "release" THEN [@ EXCEPT !.pc = "force_release"]
                ELSE IF a = "true" THEN [@ EXCEPT !.pc = "idle"]
                ELSE [@ EXCEPT !.pc = "read_progress", !.readFailed = ~readOk]]
    /\ UNCHANGED <<tagVars, xf, secrets, now, lock, progress, meals, drain, toggle, imgVars>>

SchedForceRelease(p) ==
    /\ sched[p].pc = "force_release"
    /\ \E deleteOk \in BOOLEAN : lock' = ReleasedLock(lock, deleteOk)
    /\ sched' = [sched EXCEPT ![p].pc = "read_progress"]
    /\ UNCHANGED <<tagVars, xf, secrets, now, progress, meals, drain, toggle, imgVars>>

\* updateSingleBatchOnly, lines 344-349: the stored start position; an error
\* is rethrown (line 375) and logged by the trigger (index.ts line 339)
SchedReadProgress(p) ==
    /\ sched[p].pc = "read_progress"
    /\ \E readOk \in BOOLEAN :
        sched' = [sched EXCEPT ![p] =
            IF ~readOk THEN IdleSched
            ELSE [@ EXCEPT !.pc = "scan", !.readFailed = FALSE,
                           !.tp = progress.totalProcessed, !.tu = progress.totalUpdated,
                           !.startAfter = IF progress.exists
                                          THEN progress.lastProcessedId ELSE 0]]
    /\ UNCHANGED <<tagVars, xf, secrets, now, lock, progress, meals, drain, toggle, imgVars>>

\* line 352: updateMealsInBatches(startAfter), its reads (lines 281-299)
SchedScan(p) ==
    /\ sched[p].pc = "scan"
    /\ \E readOk \in BOOLEAN :
        sched' = [sched EXCEPT ![p] =
            IF ~readOk THEN IdleSched
            ELSE LET page == QueryPage(meals, sched[p].startAfter)
                 IN  IF Len(page) = 0
                     THEN [@ EXCEPT !.pc = "save"]
                     ELSE [@ EXCEPT !.pc = "item", !.page = page,
                                    !.snap = Enriched(meals, page), !.idx = 1]]
    /\ UNCHANGED <<tagVars, xf, secrets, now, lock, progress, meals, drain, toggle, imgVars>>

\* lines 305-318 for one document
SchedItem(p) ==
    /\ sched[p].pc = "item"
    /\ LET id == sched[p].page[sched[p].idx]
           last == sched[p].idx = Len(sched[p].page)
       IN  \E res \in ItemResults(meals, id, sched[p].snap, secrets.OPENAI_API_KEY) :
               /\ meals' = MealsAfter(meals, id, res)
               /\ sched' = [sched EXCEPT ![p] =
                    [@ EXCEPT
                       !.touched = IF Transformed(res) THEN @ \cup {id} ELSE @,
                       !.updatedCount = IF Success(res) THEN @ + 1 ELSE @,
                       !.idx = IF last THEN @ ELSE @ + 1,
                       !.pc = IF last THEN "save" ELSE "item"]]
    /\ UNCHANGED <<tagVars, xf, secrets, now, lock, progress, drain, toggle, imgVars>>

\* a progress document whose totals are those of the last batch alone
SavedProgressOfBatch(tp, tu, page, updatedCount) ==
    IF HasMore(Len(page)) /\ LastOf(page) # 0
    THEN [exists |-> TRUE, lastProcessedId |-> LastOf(page),
          totalProcessed |-> Len(page), totalUpdated |-> updatedCount]
    ELSE NoProgress

\* lines 355-366: the progress document after the batch
SavedProgress(tp, tu, page, updatedCount) ==
    IF HasMore(Len(page)) /\ LastOf(page) # 0
    THEN [exists |-> TRUE, lastProcessedId |-> LastOf(page),
          totalProcessed |-> tp + Len(page), totalUpdated |-> tu + updatedCount]
    ELSE NoProgress

SchedSave(p) ==
    /\ sched[p].pc = "save"
    /\ \E writeOk \in BOOLEAN :
        progress' = IF writeOk
                    THEN SavedProgress(sched[p].tp, sched[p].tu, sched[p].page,
                                       sched[p].updatedCount)
                    ELSE progress
    /\ sched' = [sched EXCEPT ![p] = IdleSched]
    /\ UNCHANGED <<tagVars, xf, secrets, now, lock, meals, drain, toggle, imgVars>>

SchedNext(p) ==
    \/ SchedFire(p)
    \/ SchedCheck(p)
    \/ SchedForceRelease(p)
    \/ SchedReadProgress(p)
    \/ SchedScan(p)
    \/ SchedItem(p)
    \/ SchedSave(p)

\* ---- toggleScheduledUpdates, index.ts lines 347-394 -----------------------
ToggleRequest ==
    /\ toggle = "idle"
    /\ toggle' \in {"status", "stop", "start"}
    /\ UNCHANGED <<tagVars, xf, secrets, now, lock, progress, meals, drain, sched, imgVars>>

\* action=stop: acquireLock, its answer is not read
ToggleStop ==
    /\ toggle = "stop"
    /\ \E setOk \in BOOLEAN : lock' = AcquiredLock(lock, now, setOk)
    /\ toggle' = "idle"
    /\ UNCHANGED <<tagVars, xf, secrets, now, progress, meals, drain, sched, imgVars>>

\* action=start: releaseLock
ToggleStart ==
    /\ toggle = "start"
    /\ \E deleteOk \in BOOLEAN : lock' = ReleasedLock(lock, deleteOk)
    /\ toggle' = "idle"
    /\ UNCHANGED <<tagVars, xf, secrets, now, progress, meals, drain, sched, imgVars>>

\* action=status: isUpdateProcessRunning, then getUpdateStats (reads only)
ToggleStatus ==
    /\ toggle = "status"
    /\ \E readOk \in BOOLEAN :
        toggle' = IF RunningAnswer(readOk, lock, now) = "release"
                  THEN "force_release" ELSE "idle"
    /\ UNCHANGED <<tagVars, xf, secrets, now, lock, progress, meals, drain, sched, imgVars>>

ToggleForceRelease ==
    /\ toggle = "force_release"
    /\ \E deleteOk \in BOOLEAN : lock' = ReleasedLock(lock, deleteOk)
    /\ toggle' = "idle"
    /\ UNCHANGED <<tagVars, xf, secrets, now, progress, meals, drain, sched, imgVars>>

ToggleNext ==
    \/ ToggleRequest
    \/ ToggleStop
    \/ ToggleStart
    \/ ToggleStatus
    \/ ToggleForceRelease

\* ---- generateImagesBatch, part_002 lines 224-382 ---------------------------
\* a scan that forgets the stored cursor
ScanPageFromStart(ms, lastDocId) == Take(SortedSeq(Present(ms)), SCAN_PAGE_SIZE)

\* lines 240-253: orderBy(documentId).limit(SCAN_PAGE_SIZE).startAfter(lastDocId)
ScanPage(ms, lastDocId) ==
    Take(SortedSeq({i \in Present(ms) : i > lastDocId}), SCAN_PAGE_SIZE)

\* a filter that gives up a record once it is marked as failed
IsCandidateNotFailed(d) == d.source # "recraft-v3" /\ d.hasTitle /\ ~d.failed

\* a filter that does not look at the source of the image
IsCandidateAnySource(d) == d.hasTitle

\* lines 277-283: the source is not recraft-v3 and the document has a title
IsCandidate(d) == d.source # "recraft-v3" /\ d.hasTitle

RECURSIVE Filter(_, _)
Filter(ms, page) ==
    IF page = <<>> THEN <<>>
    ELSE (IF IsCandidate(ms[Head(page)]) THEN <<Head(page)>> ELSE <<>>)
         \o Filter(ms, Tail(page))

\* a batch without the quota
ToProcessAll(ms, page) == Filter(ms, page)

\* line 298
ToProcess(ms, page) == Take(Filter(ms, page), IMG_BATCH_SIZE)

\* more pages are promised whenever the page has a document
PageHasMoreIfAny(page) == Len(page) > 0

\* line 272
PageHasMore(page) == Len(page) = SCAN_PAGE_SIZE

\* setScanState, lines 45-53: set with merge, started_at is kept; updated_at,
\* which nothing reads, is left out
MergedScanState(st, lastDocId, finished) ==
    [st EXCEPT !.exists = TRUE, !.lastDocId = lastDocId, !.finished = finished]

\* lines 364-365 and 287: the cursor written after a non-empty page
AdvancedScanState(st, page) == MergedScanState(st, LastOf(page), ~PageHasMore(page))

\* an end of the scan that leaves the cursor where it is
RewoundKeepsCursor(st) == MergedScanState(st, st.lastDocId, TRUE)

\* line 257: the rewind after an empty page
RewoundScanState(st) == MergedScanState(st, 0, TRUE)

\* resetRecraftScanCursor, lines 58-69
ResetCursor ==
    /\ scanState' = [exists |-> TRUE, lastDocId |-> 0, finished |-> FALSE,
                     started_at |-> now]
    /\ cursorOp' = "reset"
    /\ UNCHANGED <<tagVars, xf, secrets, now, lock, progress, meals, drain, sched, toggle, img>>

ImgStart ==
    /\ img.pc = "idle"
    /\ img' = [IdleImg EXCEPT !.pc = "state"]
    /\ UNCHANGED <<tagVars, xf, secrets, now, lock, progress, meals, drain, sched, toggle, scanState, cursorOp>>

ImgThrown == [IdleImg EXCEPT !.result = [NoResult EXCEPT !.given = TRUE, !.threw = TRUE]]

\* lines 237-238: getScanState
ImgGetState ==
    /\ img.pc = "state"
    /\ \E readOk \in BOOLEAN :
        img' = IF readOk THEN [img EXCEPT !.pc = "query", !.lastDocId = scanState.lastDocId]
               ELSE ImgThrown
    /\ UNCHANGED <<tagVars, xf, secrets, now, lock, progress, meals, drain, sched, toggle, scanState, cursorOp>>

\* lines 253-299: the page, its candidates, the batch
ImgQuery ==
    /\ img.pc = "query"
    /\ \E readOk \in BOOLEAN :
        img' = IF ~readOk THEN ImgThrown
               ELSE LET page == ScanPage(meals, img.lastDocId)
                        todo == ToProcess(meals, page)
                    IN  IF Len(page) = 0 THEN [img EXCEPT !.pc = "rewind"]
                        ELSE IF Len(todo) = 0 THEN [img EXCEPT !.pc = "advance", !.page = page]
                        ELSE [img EXCEPT !.pc = "item", !.page = page, !.todo = todo,
                                         !.idx = 1]
    /\ UNCHANGED <<tagVars, xf, secrets, now, lock, progress, meals, drain, sched, toggle, scanState, cursorOp>>

\* an empty page that promises more pages
EmptyPageResultMore == [NoResult EXCEPT !.given = TRUE, !.hasMore = TRUE]

\* line 259: {processed: 0, generated: 0, failed: 0, hasMore: false}
EmptyPageResult == [NoResult EXCEPT !.given = TRUE]

\* lines 255-260
ImgRewind ==
    /\ img.pc = "rewind"
    /\ \E writeOk \in BOOLEAN :
        IF writeOk
        THEN /\ scanState' = RewoundScanState(scanState)
             /\ cursorOp' = "rewind"
             /\ img' = [IdleImg EXCEPT !.result = EmptyPageResult]
        ELSE /\ img' = ImgThrown
             /\ UNCHANGED <<scanState, cursorOp>>
    /\ UNCHANGED <<tagVars, xf, secrets, now, lock, progress, meals, drain, sched, toggle>>

\* lines 305-362 for one candidate: "generated" is lines 330-352 (update()
\* rejects for a document that no longer exists); "marked" and "unmarked"
\* are the catch of lines 356-361, markMealImageFailed swallowing a rejected
\* update.  token: RECRAFT_API_TOKEN is set; without it the request of
\* generateRecraftFoodImage (recraftImageGeneration.ts lines 29-46) carries no
\* credential and is rejected, inside the try of line 316.
ImgResults(ms, id, token) ==
    {"unmarked"}
    \cup (IF ms[id].st = "present" THEN {"marked"} ELSE {})
    \cup (IF token /\ ms[id].st = "present" THEN {"generated"} ELSE {})

\* a success that leaves image_generation_source as it was
ImgMealsAfterKeepsSource(ms, id, res) ==
    IF res = "generated" THEN [ms EXCEPT ![id].failed = FALSE]
    ELSE IF res = "marked" THEN [ms EXCEPT ![id].failed = TRUE]
    ELSE ms

\* lines 330-352 and recraftImageGeneration.ts lines 176-192
ImgMealsAfter(ms, id, res) ==
    IF res = "generated"
    THEN [ms EXCEPT ![id].source = "recraft-v3", ![id].failed = FALSE]
    ELSE IF res = "marked" THEN [ms EXCEPT ![id].failed = TRUE]
    ELSE ms

\* a loop that a failed record ends
AfterItemAbort(res, last) == IF last \/ res # "generated" THEN "advance" ELSE "item"

\* lines 305 and 356-362: the catch is inside the loop, the next record follows
AfterItem(res, last) == IF last THEN "advance" ELSE "item"

ImgItem ==
    /\ img.pc = "item"
    /\ LET id == img.todo[img.idx]
           last == img.idx = Len(img.todo)
       IN  \E res \in ImgResults(meals, id, secrets.RECRAFT_API_TOKEN) :
               /\ meals' = ImgMealsAfter(meals, id, res)
               /\ img' = [img EXCEPT
                            !.generated = IF res = "generated" THEN @ + 1 ELSE @,
                            !.failed = IF res = "generated" THEN @ ELSE @ + 1,
                            !.attempted = @ \cup {id},
                            !.failedIds = IF res = "generated" THEN @ ELSE @ \cup {id},
                            !.idx = IF last THEN @ ELSE @ + 1,
                            !.pc = AfterItem(res, last)]
    /\ UNCHANGED <<tagVars, xf, secrets, now, lock, progress, drain, sched, toggle, scanState, cursorOp>>

\* lines 287-295 and 364-377; processedCount (line 309) counts the records
\* the loop has run for
ImgAdvance ==
    /\ img.pc = "advance"
    /\ \E writeOk \in BOOLEAN :
        IF writeOk
        THEN /\ scanState' = AdvancedScanState(scanState, img.page)
             /\ cursorOp' = "advance"
             /\ img' = [IdleImg EXCEPT !.result =
                          [given |-> TRUE, threw |-> FALSE, processed |-> Cardinality(img.attempted),
                           generated |-> img.generated, failed |-> img.failed,
                           hasMore |-> PageHasMore(img.page)]]
        ELSE /\ img' = ImgThrown
             /\ UNCHANGED <<scanState, cursorOp>>
    /\ UNCHANGED <<tagVars, xf, secrets, now, lock, progress, meals, drain, sched, toggle>>

ImgNext ==
    \/ ImgStart
    \/ ImgGetState
    \/ ImgQuery
    \/ ImgRewind
    \/ ImgItem
    \/ ImgAdvance

\* another writer creates a meal document, as the image job sees it
InsertImgMeal ==
    /\ \E i \in ImgMealIds, d \in ImgDocs :
        /\ meals[i].st = "absent"
        /\ meals' = [meals EXCEPT ![i] = d]
    /\ UNCHANGED <<tagVars, xf, secrets, now, lock, progress, drain, sched, toggle, imgVars>>

InitImg ==
    /\ now = 0
    /\ lock = NoLock
    /\ progress = NoProgress
    /\ meals \in [ImgMealIds -> ImgDocs \cup {AbsentDoc}]
    /\ drain = IdleDrain
    /\ sched = [p \in AllScheds |-> IdleSched]
    /\ toggle = "idle"
    /\ scanState = NoScanState
    /\ img = IdleImg
    /\ cursorOp = "none"
    /\ secrets = AllSecrets
    /\ tags = NoTags
    /\ tagJob = IdleTagJob
    /\ xf = IdleXf

\* ---- generateMealsForOneTag, lines 773-836 --------------------------------
\* the id of a new meal document: ids are generated, never reused, and the
\* new document is the last in the order of created_time
NextMealId(ms) ==
    LET used == {i \in DOMAIN ms : ms[i].st # "absent"}
    IN  IF used = {} THEN 1 ELSE 1 + (CHOOSE x \in used : \A y \in used : y <= x)

\* the document saveMealToFirestore writes (lines 746-757): a generated meal
\* has a title and the description fields, its photo is not from recraft-v3
NewMeal == [st |-> "present", enriched |-> TRUE, hasTitle |-> TRUE,
            source |-> "other", failed |-> FALSE]

\* an invocation starts only while the collection has room for its meals
TagStart ==
    /\ tagJob.pc = "idle"
    /\ NextMealId(meals) + MEALS_PER_TAG - 1 \in DOMAIN meals
    /\ tagJob' = [IdleTagJob EXCEPT !.pc = "query"]
    /\ UNCHANGED <<tags, xf, secrets, now, lock, progress, meals, drain, sched, toggle, imgVars>>

\* lines 778-789: where isGenerated != true, limit 1; a rejected query is
\* caught at line 833
TagQuery ==
    /\ tagJob.pc = "query"
    /\ \E readOk \in BOOLEAN :
        IF ~readOk \/ \A t \in TagIds : tags[t].isGenerated
        THEN tagJob' = IdleTagJob
        ELSE \E t \in TagIds :
                /\ ~tags[t].isGenerated
                /\ tagJob' = [tagJob EXCEPT !.pc = "generate", !.tag = t, !.attempt = 1]
    /\ UNCHANGED <<tags, xf, secrets, now, lock, progress, meals, drain, sched, toggle, imgVars>>

\* lines 796-805: generateMealsForTag, up to three attempts; the error of
\* the third is thrown and caught at line 833
TagGenerate ==
    /\ tagJob.pc = "generate"
    /\ \E ok \in BOOLEAN :
        tagJob' = IF ok THEN [tagJob EXCEPT !.pc = "save", !.k = 1, !.attempt = 1]
                  ELSE IF tagJob.attempt = TAG_ATTEMPTS THEN IdleTagJob
                  ELSE [tagJob EXCEPT !.attempt = @ + 1]
    /\ UNCHANGED <<tags, xf, secrets, now, lock, progress, meals, drain, sched, toggle, imgVars>>

\* where the loops of lines 809-823 go after the meal k
AfterMeal(job) ==
    IF job.k = MEALS_PER_TAG THEN [job EXCEPT !.pc = "mark"]
    ELSE [job EXCEPT !.k = @ + 1, !.attempt = 1]

\* lines 809-823: one call of saveMealToFirestore, which catches its errors
\* and answers false (lines 764-767); the answer false goes to the next
\* attempt, and after the third to the next meal
TagSave ==
    /\ tagJob.pc = "save"
    /\ \E ok \in BOOLEAN :
        IF ok
        THEN /\ meals' = [meals EXCEPT ![NextMealId(meals)] = NewMeal]
             /\ tagJob' = AfterMeal([tagJob EXCEPT !.savedCount = @ + 1])
        ELSE /\ meals' = meals
             /\ tagJob' = IF tagJob.attempt = TAG_ATTEMPTS THEN AfterMeal(tagJob)
                           ELSE [tagJob EXCEPT !.attempt = @ + 1]
    /\ UNCHANGED <<tags, xf, secrets, now, lock, progress, drain, sched, toggle, imgVars>>

\* lines 825-831: the tag is updated; a rejected update is caught at line 833
TagMark ==
    /\ tagJob.pc = "mark"
    /\ \E writeOk \in BOOLEAN :
        tags' = IF writeOk THEN [tags EXCEPT ![tagJob.tag].isGenerated = TRUE] ELSE tags
    /\ tagJob' = IdleTagJob
    /\ UNCHANGED <<xf, secrets, now, lock, progress, meals, drain, sched, toggle, imgVars>>

InitTags ==
    /\ now = 0
    /\ lock = NoLock
    /\ progress = NoProgress
    /\ meals = [i \in TagMealIds |-> AbsentDoc]
    /\ drain = IdleDrain
    /\ sched = [p \in AllScheds |-> IdleSched]
    /\ toggle = "idle"
    /\ scanState = NoScanState
    /\ img = IdleImg
    /\ cursorOp = "none"
    /\ secrets = AllSecrets
    /\ tags \in [TagIds -> [isGenerated : BOOLEAN]]
    /\ tagJob = IdleTagJob
    /\ xf = IdleXf

\* ---- the item transformers, attempt by attempt ----------------------------
\* line 259: Math.pow(2, attempt) * 1000 ms, in seconds
Backoff(attempt) == 2 ^ attempt

\* updateSingleMeal is called with the snapshot of a document of the page;
\* the loop of generateImagesBatch runs for a candidate
XfStart ==
    /\ xf.pc = "idle"
    /\ \E job \in {"description", "image"}, id \in Present(meals) :
        /\ job = "image" => IsCandidate(meals[id])
        /\ xf' = [IdleXf EXCEPT !.pc = "attempt", !.job = job, !.id = id,
                                !.enriched = meals[id].enriched]
    /\ UNCHANGED <<tagVars, secrets, now, lock, progress, meals, drain, sched, toggle, imgVars>>

\* updateSingleMeal, lines 223-256: one turn of the loop
XfAttemptDescription ==
    /\ xf.pc = "attempt" /\ xf.job = "description"
    /\ IF xf.enriched
       THEN /\ xf' = [xf EXCEPT !.pc = "idle", !.outcome = "skipped"]
            /\ meals' = meals
       ELSE \E res \in ItemResults(meals, xf.id, {}, secrets.OPENAI_API_KEY) :
               /\ meals' = MealsAfter(meals, xf.id, res)
               /\ xf' = [xf EXCEPT
                           !.attempts = @ + 1,
                           !.pc = IF res = "ok" \/ xf.attempts + 1 = maxRetries
                                  THEN "idle" ELSE "wait",
                           !.outcome = IF res = "ok" THEN "done"
                                       ELSE IF xf.attempts + 1 = maxRetries THEN "failed"
                                       ELSE "none"]
    /\ UNCHANGED <<tagVars, secrets, now, lock, progress, drain, sched, toggle, imgVars>>

\* lines 258-261: the wait before the next attempt
XfWait ==
    /\ xf.pc = "wait"
    /\ xf' = [xf EXCEPT !.pc = "attempt", !.delays = Append(@, Backoff(xf.attempts))]
    /\ UNCHANGED <<tagVars, secrets, now, lock, progress, meals, drain, sched, toggle, imgVars>>

\* generateImagesBatch, part_002 lines 316-361: the one call of
\* generateRecraftFoodImage for the record, the update, and the catch
XfAttemptImage ==
    /\ xf.pc = "attempt" /\ xf.job = "image"
    /\ \E res \in ImgResults(meals, xf.id, secrets.RECRAFT_API_TOKEN) :
        /\ meals' = ImgMealsAfter(meals, xf.id, res)
        /\ xf' = [xf EXCEPT !.attempts = @ + 1, !.pc = "idle",
                            !.outcome = IF res = "generated" THEN "done" ELSE "failed"]
    /\ UNCHANGED <<tagVars, secrets, now, lock, progress, drain, sched, toggle, imgVars>>

\* ---- specifications -------------------------------------------------------
\* the lock protocol: the drain, one scheduled trigger, the toggle, the clock
Next ==
    \/ Tick
    \/ DrainNext
    \/ SchedNext(1)
    \/ ToggleNext

Spec == Init /\ [][Next]_vars

\* one drain over a collection that other writers change
NextDrain ==
    \/ Tick
    \/ InsertMeal
    \/ DeleteMeal
    \/ DrainNext

SpecDrain == Init /\ [][NextDrain]_vars

\* overlapping invocations of the scheduled trigger, beside the toggle
NextOverlap ==
    \/ Tick
    \/ ToggleNext
    \/ \E p \in AllScheds : SchedNext(p)

SpecOverlap == Init /\ [][NextOverlap]_vars

\* drains over a collection that no other writer changes, no other user of
\* the lock, and no time for a lock to become stale; every await of the drain
\* settles, so a step of the drain that can be taken is taken
NextDrainLive ==
    \/ DrainStart
    \/ DrainCheck
    \/ DrainAcquire
    \/ DrainScan
    \/ DrainItem
    \/ DrainRelease

FairDrain ==
    /\ WF_vars(DrainScan)
    /\ WF_vars(DrainItem)
    /\ WF_vars(DrainRelease)

SpecDrainLive == Init /\ [][NextDrainLive]_vars /\ FairDrain

\* updateSingleBatchOnly, one invocation after the other and no lock set,
\* over a collection that other writers change
NextSingle ==
    \/ InsertMeal
    \/ DeleteMeal
    \/ SchedFire(1)
    \/ SchedCheck(1)
    \/ SchedReadProgress(1)
    \/ SchedScan(1)
    \/ SchedItem(1)
    \/ SchedSave(1)

SpecSingle == Init /\ [][NextSingle]_vars

\* the tag job, one invocation after the other
NextTags ==
    \/ TagStart
    \/ TagQuery
    \/ TagGenerate
    \/ TagSave
    \/ TagMark

SpecTags == InitTags /\ [][NextTags]_vars

\* single runs of the two item transformers
NextRetry ==
    \/ XfStart
    \/ XfAttemptDescription
    \/ XfWait
    \/ XfAttemptImage

SpecRetry == Init /\ [][NextRetry]_vars

\* the image job, one invocation at a time, over a collection that other
\* writers change
NextImg ==
    \/ ImgNext
    \/ ResetCursor
    \/ InsertImgMeal
    \/ DeleteMeal

SpecImg == InitImg /\ [][NextImg]_vars

\* the two batch jobs, one batch at a time, over a collection that no other
\* writer changes, with each secret configured or missing.  The description
\* job reads and writes the description fields only and the image job the
\* title and the image fields only, so each collection here leaves work to one
\* of the jobs and none to the other.
DescJobDocs == [st : {"present"}, enriched : BOOLEAN, hasTitle : {TRUE},
                source : {"recraft-v3"}, failed : {FALSE}]

ImgJobDocs == {d \in [st : {"present"}, enriched : {TRUE}, hasTitle : BOOLEAN,
                      source : {"other", "recraft-v3"}, failed : {FALSE}] :
                  d.source = "recraft-v3" => d.hasTitle}

JobMeals ==
    {ms \in [MealIds -> DescJobDocs \cup {AbsentDoc}]
            \cup [MealIds -> ImgJobDocs \cup {AbsentDoc}] :
        \A i, j \in MealIds : (j < i /\ ms[i].st = "present") => ms[j].st = "present"}

InitJobs ==
    /\ now = 0
    /\ lock = NoLock
    /\ progress = NoProgress
    /\ meals \in JobMeals
    /\ drain = IdleDrain
    /\ sched = [p \in AllScheds |-> IdleSched]
    /\ toggle = "idle"
    /\ scanState = NoScanState
    /\ img = IdleImg
    /\ cursorOp = "none"
    /\ secrets \in [OPENAI_API_KEY : BOOLEAN, RECRAFT_API_TOKEN : BOOLEAN]
    /\ tags = NoTags
    /\ tagJob = IdleTagJob
    /\ xf = IdleXf

JobsSchedFire == img.pc = "idle" /\ SchedFire(1)

JobsImgStart == sched[1].pc = "idle" /\ ImgStart

NextJobs ==
    \/ JobsSchedFire
    \/ SchedCheck(1)
    \/ SchedReadProgress(1)
    \/ SchedScan(1)
    \/ SchedItem(1)
    \/ SchedSave(1)
    \/ JobsImgStart
    \/ ImgGetState
    \/ ImgQuery
    \/ ImgRewind
    \/ ImgItem
    \/ ImgAdvance

SpecJobs == InitJobs /\ [][NextJobs]_vars

\* the image job invoked again and again (index.ts line 430: every 5
\* minutes), one invocation at a time, over a collection that no other writer
\* changes, with an image generation that always succeeds.  A store call may
\* be rejected, but not every time it is made.
\* The collection does not change, so its documents are numbered without gaps.
InitImgLive ==
    /\ InitImg
    /\ \A i, j \in ImgMealIds : (j < i /\ meals[i].st = "present") => meals[j].st = "present"

ImgItemOk == ImgItem /\ img'.generated = img.generated + 1

NextImgLive ==
    \/ ImgStart
    \/ ImgGetState
    \/ ImgQuery
    \/ ImgRewind
    \/ ImgItemOk
    \/ ImgAdvance

FairImg ==
    /\ WF_vars(ImgStart)
    /\ SF_vars(ImgGetState /\ img'.pc = "query")
    /\ SF_vars(ImgQuery /\ img'.pc # "idle")
    /\ SF_vars(ImgRewind /\ ~img'.result.threw)
    /\ WF_vars(ImgItemOk)
    /\ SF_vars(ImgAdvance /\ ~img'.result.threw)

SpecImgLive == InitImgLive /\ [][NextImgLive]_vars /\ FairImg

\* isUpdateProcessRunning applied by the scheduled trigger to any lock
\* document at any time: with or without the locked flag, with or without a
\* timestamp that can be read, of any age
LockDocs ==
    {NoLock} \cup [exists : {TRUE}, locked : BOOLEAN, hasTs : BOOLEAN,
                   timestamp : Times, process_id : {0}]

InitRunning ==
    /\ now \in Times
    /\ lock \in LockDocs
    /\ progress = NoProgress
    /\ meals \in InitialMeals
    /\ drain = IdleDrain
    /\ sched = [p \in AllScheds |-> IdleSched]
    /\ toggle = "idle"
    /\ scanState = NoScanState
    /\ img = IdleImg
    /\ cursorOp = "none"
    /\ secrets = AllSecrets
    /\ tags = NoTags
    /\ tagJob = IdleTagJob
    /\ xf = IdleXf

NextRunning == SchedNext(1)

SpecRunning == InitRunning /\ [][NextRunning]_vars

\* ---- properties -----------------------------------------------------------
\* the step in which updateAllExistingMeals returns or throws after it acquired
DrainExitsHolding == drain.pc # "idle" /\ drain'.pc = "idle" /\ drain.acquired

C2_AcquireRefusedWhileActive ==
    [][/\ (drain.pc = "acquire" /\ drain'.pc # "acquire" /\ IsActive(lock, now))
            => (drain'.pc = "idle" /\ lock' = lock)
       /\ (toggle = "stop" /\ toggle' # "stop" /\ IsActive(lock, now))
            => lock' = lock]_vars

\* C3: while the drain holds the lock, every scheduled trigger that checks the
\* lock is locked out, and nobody but the drain removes the lock document.
C3_SchedLockedOutDuringDrain ==
    [][/\ (sched[1].pc = "check" /\ sched'[1].pc # "check" /\ DrainHolds)
            => sched'[1].pc = "idle"
       /\ (DrainHolds /\ drain' = drain /\ lock.exists) => lock'.exists]_vars

\* C4: two overlapping invocations of the scheduled trigger never call the
\* generator for the same meal.
C4_NoMealTransformedTwice ==
    \A p, q \in AllScheds :
        (p # q /\ sched[p].pc # "idle" /\ sched[q].pc # "idle")
            => sched[p].touched \cap sched[q].touched = {}

\* C5: a scheduled trigger that checks the lock while an active lock exists
\* returns at once and leaves meals, progress and lock unchanged.
C5_SchedSkipsWhileLocked ==
    [][(sched[1].pc = "check" /\ sched'[1].pc # "check" /\ IsActive(lock, now))
         => (sched'[1].pc = "idle" /\ lock' = lock /\ progress' = progress
             /\ meals' = meals)]_vars

\* C6: a drain that checks the lock while an active lock exists fails with
\* "Update process already running" and leaves the lock as it is.
C6_DrainRefusesWhileLocked ==
    [][(drain.pc = "check" /\ drain'.pc # "check" /\ IsActive(lock, now))
         => (drain'.pc = "idle" /\ drain'.outcome = "already_running"
             /\ lock' = lock)]_vars

\* C7: isUpdateProcessRunning called on a stale lock goes to the release, and
\* when it then answers false the lock document has been removed.
C7_StaleLockRemoved ==
    [][/\ (drain.pc = "check" /\ drain'.pc # "check" /\ IsStale(lock, now))
            => drain'.pc = "force_release"
       /\ (drain.pc = "force_release" /\ drain'.pc # "force_release")
            => ~lock'.exists
       /\ (sched[1].pc = "check" /\ sched'[1].pc # "check" /\ IsStale(lock, now))
            => sched'[1].pc = "force_release"
       /\ (sched[1].pc = "force_release" /\ sched'[1].pc # "force_release")
            => ~lock'.exists]_vars

\* C8: no caller goes on with the answer false of an isUpdateProcessRunning
\* whose get() was rejected, and a rejected delete of releaseLock does not let
\* the drain return normally.
C8_LockErrorsPropagate ==
    /\ ~drain.readFailed
    /\ \A p \in AllScheds : ~sched[p].readFailed
    /\ drain.rel = "failed" => drain.outcome # "returned"

\* C9: from one step to the next the stored lastDocId does not decrease,
\* unless resetRecraftScanCursor or the rewind after an empty page sets it
\* to null.
C9_CursorMonotone ==
    [][\/ scanState'.lastDocId >= scanState.lastDocId
       \/ (scanState'.lastDocId = 0 /\ cursorOp' \in {"reset", "rewind"})]_vars

\* the cursor has advanced over a full collection to its last document
C9_Witness ==
    /\ cursorOp = "advance"
    /\ scanState.lastDocId = MaxImgMeals
    /\ Present(meals) = ImgMealIds
    /\ img.result.given /\ ~img.result.threw

\* C10: in one drain updateSingleMeal is called at most once for each meal.
C10_AtMostOncePerDrain == \A m \in MealIds : drain.invoked[m] <= 1

\* the step in which generateImagesBatch returns its summary after the loop
ImgReturns == img.pc = "advance" /\ img'.pc = "idle" /\ ~img'.result.threw

RECURSIVE SeqToSet(_)
SeqToSet(q) == IF q = <<>> THEN {} ELSE {Head(q)} \cup SeqToSet(Tail(q))

\* C11: a failure on one selected candidate does not abort the batch: when the
\* batch returns, the loop has run for every selected candidate, the summary
\* counts every selected candidate as processed and exactly the failing ones
\* as failed; the page loop of the description job runs to the last document
\* of its page as well.
C11_FailureDoesNotAbortBatch ==
    [][/\ ImgReturns =>
            /\ img.attempted = SeqToSet(img.todo)
            /\ img'.result.processed = Len(img.todo)
            /\ img'.result.failed = Cardinality(img.failedIds)
            /\ img'.result.generated = Len(img.todo) - Cardinality(img.failedIds)
       /\ (sched[1].pc = "item" /\ sched'[1].pc = "save")
            => sched[1].idx = Len(sched[1].page)]_vars

\* a batch of two candidates has returned, the first failed, the second did not
C11_Witness ==
    /\ img.pc = "idle"
    /\ img.result.given /\ ~img.result.threw
    /\ img.result.processed = 2
    /\ img.result.failed = 1
    /\ img.result.generated = 1
    /\ meals[1].failed
    /\ meals[2].source = "recraft-v3"

\* C12: a call that scanned, from the start, a collection smaller than the
\* page returns hasMore = false and stores finished = true, and the call that
\* follows it starts from lastDocId = none.
C12_RescanRightAfterFinished ==
    [][/\ (ImgReturns /\ img.lastDocId = 0 /\ Len(img.page) < SCAN_PAGE_SIZE)
            => (~img'.result.hasMore /\ scanState'.finished)
       /\ (img.pc = "state" /\ img'.pc = "query" /\ cursorOp = "advance"
             /\ scanState.finished)
            => img'.lastDocId = 0]_vars

\* C13: a step of the image job neither writes nor runs the generator for a
\* record whose image_generation_source is recraft-v3 or that has no title, and
\* a step of the description job neither writes nor runs the generator for a
\* meal that has description_localized, benefits and ingredients.
C13_IneligibleUntouched ==
    [][\A r \in MealIds :
        /\ (img' # img /\ meals[r].st = "present"
              /\ (meals[r].source = "recraft-v3" \/ ~meals[r].hasTitle))
             => (meals'[r] = meals[r] /\ (r \in img'.attempted => r \in img.attempted))
        /\ (sched' # sched /\ meals[r].st = "present" /\ meals[r].enriched)
             => (meals'[r] = meals[r]
                 /\ (r \in sched'[1].touched => r \in sched[1].touched))]_vars

\* the loop of the image job has run for the candidates of a page that also
\* holds a record that is not eligible, and has not run for that record
C13_Witness ==
    /\ img.pc = "advance"
    /\ img.attempted # {}
    /\ \E k \in 1..Len(img.page) :
         /\ img.page[k] \notin img.attempted
         /\ meals[img.page[k]].st = "present"
         /\ meals[img.page[k]].source = "recraft-v3"

\* the step of the description job that ran the generator for meal r and
\* gave up after its last attempt
SchedItemFailed(r) ==
    /\ sched[1].pc = "item"
    /\ sched[1].page[sched[1].idx] = r
    /\ r \in sched'[1].touched
    /\ sched'[1].updatedCount = sched[1].updatedCount

\* the step of the image job whose run for record r ended in the catch
ImgItemFailed(r) ==
    /\ img.pc = "item"
    /\ r \in img'.failedIds
    /\ r \notin img.failedIds

\* C14: when the transformation of a selected record has failed terminally,
\* in the image job or in the description job, the record carries the durable
\* failure fields.
C14_FailureRecordedOnRecord ==
    [][\A r \in MealIds :
        (SchedItemFailed(r) \/ ImgItemFailed(r)) => meals'[r].failed]_vars

\* C15: with the credential of a job missing, the first record that needs the
\* credential ends the invocation with an error, no meal record is written and
\* no further record is attempted.
C15_MissingSecretFailsFast ==
    [][/\ (~secrets.OPENAI_API_KEY /\ sched[1].pc = "item"
             /\ sched'[1].touched # sched[1].touched)
            => (sched'[1].pc = "idle" /\ meals' = meals)
       /\ (~secrets.RECRAFT_API_TOKEN /\ img.pc = "item" /\ img' # img)
            => (img' = ImgThrown /\ meals' = meals)]_vars

\* C16: every record that is eligible is eventually transformed, the records
\* beyond the first IMG_BATCH_SIZE candidates of their page included.
\* (The collection does not change and a transformed record stays transformed,
\* so this is: eventually no record is left that is eligible.)
C16_EveryEligibleTransformed ==
    <>(\A m \in ImgMealIds :
        (meals[m].st = "present" /\ meals[m].hasTitle) => meals[m].source = "recraft-v3")

\* the cursor is about to pass a candidate of the page that the batch, full
\* with IMG_BATCH_SIZE earlier candidates, has not taken
C16_Witness ==
    /\ img.pc = "advance"
    /\ Cardinality(img.attempted) = IMG_BATCH_SIZE
    /\ \E k \in 1..Len(img.page) :
         /\ img.page[k] \notin img.attempted
         /\ meals[img.page[k]].source # "recraft-v3"
         /\ meals[img.page[k]].hasTitle

\* the start position that system/meal_update_progress holds
PersistedCursor == IF progress.exists THEN progress.lastProcessedId ELSE 0

\* C17: every page scan of the description job, of the drain as of the
\* scheduled batch, starts at the position that meal_update_progress holds.
C17_ScanStartsAtPersistedCursor ==
    [][/\ (drain.pc = "scan" /\ drain'.pc # "scan") => drain.startAfter = PersistedCursor
       /\ (sched[1].pc = "scan" /\ sched'[1].pc # "scan")
            => sched[1].startAfter = PersistedCursor]_vars

\* index.ts lines 364-365 and 371-372: the scheduled updates are stopped by
\* setting the lock document and started by removing it; where nothing but the
\* toggle sets the lock, they are stopped exactly while the document exists
Stopped == lock.exists

\* C18: once action=stop has answered, the scheduled updates are stopped and
\* every trigger that checks is skipped, until action=start; once action=start
\* has answered they are no longer stopped, and a trigger that checks then
\* goes on to its batch.
C18_StoppedUntilStarted ==
    [][/\ (toggle = "stop" /\ toggle' = "idle") => Stopped'
       /\ (toggle = "start" /\ toggle' = "idle") => ~Stopped'
       /\ \A p \in AllScheds :
            (sched[p].pc = "check" /\ sched'[p].pc # "check")
                => IF Stopped THEN sched'[p].pc = "idle" /\ Stopped'
                   ELSE sched'[p].pc = "read_progress"]_vars

\* C19: isUpdateProcessRunning answers true (the trigger returns at once) only
\* for a lock document that exists, has a timestamp that can be read and is
\* younger than the TTL; at the TTL, above it, or without such a timestamp the
\* answer is false.
C19_RunningOnlyIfYoungerThanTtl ==
    [][(sched[1].pc = "check" /\ sched'[1].pc = "idle")
         => (lock.exists /\ lock.hasTs /\ now - lock.timestamp < LockTtl)]_vars

\* C20: the call that scans an empty page stores finished = true and
\* lastDocId = null and returns processed = 0, generated = 0, failed = 0,
\* hasMore = false; the invocation that follows reads no cursor and scans the
\* first documents of the collection.
C20_EmptyPageRewinds ==
    [][/\ (img.pc = "rewind" /\ img'.pc = "idle" /\ ~img'.result.threw)
            => /\ scanState'.exists /\ scanState'.finished /\ scanState'.lastDocId = 0
               /\ img'.result.processed = 0 /\ img'.result.generated = 0
               /\ img'.result.failed = 0 /\ ~img'.result.hasMore
               /\ meals' = meals
       /\ (img.pc = "state" /\ img'.pc = "query" /\ cursorOp = "rewind")
            => img'.lastDocId = 0
       /\ (img.pc = "query" /\ img.lastDocId = 0 /\ img'.pc \in {"item", "advance"})
            => img'.page = Take(SortedSeq({i \in ImgMealIds : meals[i].st = "present"}),
                                SCAN_PAGE_SIZE)]_vars

\* after an empty page the next invocation has scanned a full page from the
\* first document on
C20_Witness ==
    /\ cursorOp = "rewind"
    /\ scanState.finished
    /\ img.pc = "item"
    /\ img.lastDocId = 0
    /\ Len(img.page) = SCAN_PAGE_SIZE
    /\ img.page[1] = 1

\* ---- the candidates of a page and the batch ------------------------------
\* the documents of a page that lines 277-283 keep, in the order of the page
\* (ascending document id): the source is not recraft-v3 and a title is set
CandidatesOf(ms, page) ==
    SortedSeq({page[k] : k \in {j \in 1..Len(page) :
                  ms[page[j]].source # "recraft-v3" /\ ms[page[j]].hasTitle}})

\* C21: when the scanned page is non-empty and has no eligible candidate,
\* generateImagesBatch changes no meal, stores lastDocId = the last document
\* of the page and finished = (page length < SCAN_PAGE_SIZE), and returns
\* processed = 0 with hasMore = (page length = SCAN_PAGE_SIZE)
C21_NoCandidatePage ==
    [][/\ (img.pc = "query" /\ img'.page # <<>>
            /\ CandidatesOf(meals, img'.page) = <<>>)
           => (img'.pc = "advance" /\ img'.todo = <<>> /\ meals' = meals)
       /\ (img.pc = "advance" /\ img.todo = <<>> /\ img'.pc = "idle"
            /\ ~img'.result.threw)
           => /\ meals' = meals
              /\ scanState'.lastDocId = img.page[Len(img.page)]
              /\ scanState'.finished = (Len(img.page) < SCAN_PAGE_SIZE)
              /\ img'.result.processed = 0
              /\ img'.result.generated = 0
              /\ img'.result.failed = 0
              /\ img'.result.hasMore = (Len(img.page) = SCAN_PAGE_SIZE)]_vars

\* a full page without a candidate was scanned: the call returned zero
\* processed and hasMore, the cursor is on the last document of the page
C21_Witness ==
    /\ img.pc = "idle" /\ img.result.given /\ ~img.result.threw
    /\ img.result.processed = 0 /\ img.result.hasMore
    /\ cursorOp = "advance"
    /\ scanState.lastDocId = SCAN_PAGE_SIZE /\ ~scanState.finished
    /\ \A i \in 1..SCAN_PAGE_SIZE : meals[i].st = "present" /\ ~meals[i].hasTitle

\* C22: the records one invocation hands to the transformer are the first
\* min(BATCH_SIZE, number of candidates) candidates of the scanned page, in
\* ascending order of the document id, and never more than BATCH_SIZE
C22_BatchIsFirstCandidates ==
    [][/\ (img.pc = "query" /\ img'.page # <<>>)
           => img'.todo = Take(CandidatesOf(meals, img'.page), IMG_BATCH_SIZE)
       /\ (img.pc = "item" /\ img' # img)
           => /\ img'.attempted = img.attempted \cup {img.todo[img.idx]}
              /\ \A a \in img.attempted : a < img.todo[img.idx]
       /\ Cardinality(img'.attempted) <= IMG_BATCH_SIZE
       /\ (img.pc = "advance" /\ img'.pc = "idle" /\ ~img'.result.threw)
           => img.attempted = SeqToSet(img.todo)]_vars

\* a page of three candidates: the first two were handed on, the third waits
C22_Witness ==
    /\ img.pc = "advance"
    /\ Len(img.page) = SCAN_PAGE_SIZE
    /\ Len(CandidatesOf(meals, img.page)) > 0
    /\ Cardinality(img.attempted) = IMG_BATCH_SIZE
    /\ img.attempted = {img.page[1], img.page[2]}
    /\ meals[img.page[3]].hasTitle /\ meals[img.page[3]].source # "recraft-v3"

\* C24: a record whose transformation failed before (image_generation_failed,
\* source not recraft-v3, title set) is a candidate of every scan of its page:
\* it is in the batch, or the batch is full of candidates that precede it
C24_FailedStaysCandidate ==
    [][(img.pc = "query" /\ img'.page # <<>>)
          => \A k \in 1..Len(img'.page) :
               LET id == img'.page[k]
               IN  (meals[id].failed /\ meals[id].source # "recraft-v3"
                    /\ meals[id].hasTitle)
                   => \/ id \in SeqToSet(img'.todo)
                      \/ /\ Len(img'.todo) = IMG_BATCH_SIZE
                         /\ \A j \in 1..Len(img'.todo) : img'.todo[j] < id]_vars

\* the loop is about to run for a record that is marked as failed
C24_Witness ==
    /\ img.pc = "item"
    /\ meals[img.todo[img.idx]].failed
    /\ meals[img.todo[img.idx]].st = "present"

\* C30: a record whose image was regenerated has source recraft-v3 and is
\* not marked as failed, and no invocation takes a record whose source is
\* recraft-v3 into its batch or runs the loop for it
C30_RegeneratedIsDone ==
    [][/\ (img.pc = "item" /\ img'.generated = img.generated + 1)
           => /\ meals'[img.todo[img.idx]].source = "recraft-v3"
              /\ ~meals'[img.todo[img.idx]].failed
       /\ (img.pc = "query" /\ img'.page # <<>>)
           => \A j \in 1..Len(img'.todo) : meals[img'.todo[j]].source # "recraft-v3"
       /\ (img.pc = "item" /\ img' # img)
           => meals[img.todo[img.idx]].source # "recraft-v3"]_vars

\* the first record of the batch was regenerated after it had failed in an
\* earlier invocation, and the loop goes on with the second
C30_Witness ==
    /\ img.pc = "item"
    /\ img.idx = 2
    /\ img.generated = 1
    /\ img.failedIds = {}
    /\ meals[img.todo[1]].source = "recraft-v3"
    /\ ~meals[img.todo[1]].failed
    /\ meals[img.todo[2]].failed

\* C25: from one updateSingleBatchOnly invocation to the next the stored
\* totalProcessed and totalUpdated never decrease, except when the progress
\* document is deleted because the batch was not full (hasMore = false)
C25_TotalsNeverDecrease ==
    [][/\ progress'.exists
           => /\ progress'.totalProcessed >= progress.totalProcessed
              /\ progress'.totalUpdated >= progress.totalUpdated
       /\ (progress.exists /\ ~progress'.exists)
           => /\ sched[1].pc = "save"
              /\ Len(sched[1].page) # BATCH_SIZE]_vars

\* a second full batch was added to the stored totals of the first
C25_Witness ==
    /\ progress.exists
    /\ progress.totalProcessed = 2 * BATCH_SIZE
    /\ sched[1].pc = "idle"

\* C29: when the stored lastProcessedId names a meal document that no longer
\* exists, updateMealsInBatches applies no start position: the scan that
\* reads the collection returns its first page
C29_MissingStartDocRestarts ==
    [][(/\ sched[1].pc = "scan"
        /\ sched[1].startAfter # 0
        /\ meals[sched[1].startAfter].st # "present"
        /\ sched'[1].pc \in {"item", "save"})
          => /\ sched'[1].page = Take(SortedSeq(Present(meals)), BATCH_SIZE)
             /\ sched'[1].pc = IF Present(meals) = {} THEN "save" ELSE "item"]_vars

\* the document of the stored position was deleted and the page that was
\* read starts with the first document of the collection
C29_Witness ==
    /\ sched[1].pc = "item"
    /\ sched[1].startAfter = BATCH_SIZE
    /\ progress.exists /\ progress.lastProcessedId = BATCH_SIZE
    /\ meals[BATCH_SIZE].st = "deleted"
    /\ sched[1].page[1] = 1
    /\ Len(sched[1].page) = BATCH_SIZE

\* C26: a cursor advance leaves the other stored fields of the job as they
\* are: setScanState keeps started_at, and the write of updateSingleBatchOnly
\* keeps the stored totalProcessed and totalUpdated, to which it adds the
\* counts of its batch
C26_AdvanceKeepsOtherFields ==
    [][/\ (img.pc \in {"advance", "rewind"} /\ img' # img)
           => scanState'.started_at = scanState.started_at
       /\ \A p \in AllScheds :
            (sched[p].pc = "save" /\ sched'[p].pc = "idle" /\ progress'.exists)
               => \/ progress' = progress
                  \/ /\ progress'.totalProcessed =
                           progress.totalProcessed + Len(sched[p].page)
                     /\ progress'.totalUpdated =
                           progress.totalUpdated + sched[p].updatedCount]_vars

\* C27: on a collection that is not modified during the run, a drain that
\* has entered its loop returns or throws after finitely many batches, and
\* the lock document is gone when it has
C27_DrainTerminatesLockReleased ==
    (drain.pc = "scan") ~> (drain.pc = "idle" /\ ~lock.exists)

\* C23: an item transformer makes at most 3 attempts for a record, stops at
\* the first attempt that succeeds, reports the failure only after the 3rd
\* failed attempt, and waits between failed attempts, each wait twice the
\* one before (2 s, 4 s); for the description job and for the image job
C23_ThreeAttemptsWithBackoff ==
    /\ xf.attempts <= maxRetries
    /\ xf.outcome = "done" => xf.pc = "idle"
    /\ xf.outcome = "failed" => xf.attempts = maxRetries
    /\ xf.outcome \in {"done", "failed"} => Len(xf.delays) = xf.attempts - 1
    /\ \A k \in 1..Len(xf.delays) :
          xf.delays[k] = IF k = 1 THEN 2 ELSE 2 * xf.delays[k - 1]

\* C28: a tag is marked isGenerated = true only after its meals were
\* generated and every one of them was saved; a failed generation or a
\* failed save leaves the tag unmarked
C28_MarkedOnlyAfterSaved ==
    [][\A t \in TagIds :
          (~tags[t].isGenerated /\ tags'[t].isGenerated)
             => /\ tagJob.pc = "mark"
                /\ tagJob.tag = t
                /\ tagJob.savedCount = MEALS_PER_TAG]_vars

====
